---- MODULE Spec2Model ----
(***************************************************************************)
(* Model of dt_example.py: a player sprite moved by the held arrow keys,   *)
(* integrated with the frame's delta time and clamped to the screen.       *)
(*                                                                         *)
(* Units.  Clock.tick returns whole milliseconds and main_loop divides by  *)
(* 1000.0, so dt is kept in milliseconds and true_pos in 1/1000 pixel:     *)
(* the product direction*speed*dt of lines 66-67 is then the integer       *)
(* direction*speed*ms.  Arithmetic is exact; the rounding error of IEEE    *)
(* doubles is not modelled.  Rect coordinates are whole pixels.            *)
(***************************************************************************)
EXTENDS Integers, Sequences, FiniteSets

\* ---------------------------------------------------------------- constants

SCREEN_W == 500
SCREEN_H == 500
PLAYER_W == 100
PLAYER_H == 100
PLAYER_SPEED == 300
MsPerSec == 1000

\* ------------------------------------------------------------------- bounds

MaxFrames == 3
MaxEvents == 2

\* Values Clock.tick may return (ms): none, a sub-pixel step, a 60 fps frame,
\* a stall long enough to carry the player past any edge and below zero.
TickValues == {0, 2, 17, 900}

\* ------------------------------------------------------------ keys, vectors

Keys == {"K_LEFT", "K_RIGHT", "K_UP", "K_DOWN"}

\* Iteration order of DIRECT_DICT.
KeyOrder == <<"K_LEFT", "K_RIGHT", "K_UP", "K_DOWN">>

DIRECT_DICT(k) ==
    CASE k = "K_LEFT"  -> <<-1, 0>>
      [] k = "K_RIGHT" -> << 1, 0>>
      [] k = "K_UP"    -> << 0, -1>>
      [] k = "K_DOWN"  -> << 0, 1>>

\* ------------------------------------------------------------------- rects

\* A rect is [x, y, w, h] in whole pixels (top-left corner and size).
MakeRect(x, y, w, h) == [x |-> x, y |-> y, w |-> w, h |-> h]

\* Mutant of ToInt: rounds to the nearest pixel.
MutToIntRound(v) == (v + (MsPerSec \div 2)) \div MsPerSec

\* Conversion of a coordinate to the int a Rect stores: truncation toward 0.
ToInt(v) == IF v >= 0 THEN v \div MsPerSec ELSE -((-v) \div MsPerSec)

\* An int coordinate as an exact position (list(self.rect.center)).
FromInt(n) == n * MsPerSec

\* rect.center (getter)
Center(r) == <<r.x + (r.w \div 2), r.y + (r.h \div 2)>>

\* rect.center = pos (setter): pos is converted to ints, the size is kept.
SetCenter(r, pos) ==
    [r EXCEPT !.x = ToInt(pos[1]) - (r.w \div 2),
              !.y = ToInt(pos[2]) - (r.h \div 2)]

\* outer.contains(inner)
Contains(outer, inner) ==
    /\ outer.x <= inner.x
    /\ outer.y <= inner.y
    /\ outer.x + outer.w >= inner.x + inner.w
    /\ outer.y + outer.h >= inner.y + inner.h
    /\ outer.x + outer.w > inner.x
    /\ outer.y + outer.h > inner.y

\* Mutant of ClampAxis: the far edge is never tested.
MutClampAxisLowOnly(p, len, lo, olen) == IF p < lo THEN lo ELSE p

ClampAxis(p, len, lo, olen) ==
    IF len >= olen THEN lo + (olen \div 2) - (len \div 2)
    ELSE IF p < lo THEN lo
    ELSE IF p + len > lo + olen THEN lo + olen - len
    ELSE p

\* inner.clamp_ip(outer)
ClampIp(inner, outer) ==
    [inner EXCEPT !.x = ClampAxis(inner.x, inner.w, outer.x, outer.w),
                  !.y = ClampAxis(inner.y, inner.h, outer.y, outer.h)]

ScreenRect == MakeRect(0, 0, SCREEN_W, SCREEN_H)

\* ------------------------------------------------------------------ Player

\* Player.__init__ (lines 42-44): the image's rect centred on pos, and the
\* exact position taken from the rect's centre.
PlayerInit(pos) ==
    LET r == SetCenter(MakeRect(0, 0, PLAYER_W, PLAYER_H),
                       <<FromInt(pos[1]), FromInt(pos[2])>>)
    IN  [rect |-> r, true_pos |-> <<FromInt(Center(r)[1]), FromInt(Center(r)[2])>>]

\* if keys[key]
Held(held, k) == k \in held

\* Mutant of Delta: a fixed step of 5 pixels per frame, dt unused.
MutDeltaPerFrame(c, ms) == c * 5 * MsPerSec

\* DIRECT_DICT[key][i]*self.speed*dt, in 1/1000 pixel for dt in ms.
Delta(c, ms) == c * PLAYER_SPEED * ms

\* Mutant of Step: line 67 indexes the vector with 0 again.
MutStepSameComponent(pos, k, ms) ==
    <<pos[1] + Delta(DIRECT_DICT(k)[1], ms), pos[2] + Delta(DIRECT_DICT(k)[1], ms)>>

\* Lines 66-67: both coordinates advanced by one key's vector.
Step(pos, k, ms) ==
    <<pos[1] + Delta(DIRECT_DICT(k)[1], ms), pos[2] + Delta(DIRECT_DICT(k)[2], ms)>>

RECURSIVE IntegrateFrom(_, _, _, _)
IntegrateFrom(i, pos, held, ms) ==
    IF i > Len(KeyOrder) THEN pos
    ELSE IntegrateFrom(i + 1,
                       IF Held(held, KeyOrder[i]) THEN Step(pos, KeyOrder[i], ms)
                                                  ELSE pos,
                       held, ms)

\* Mutant of Integrate: the loop breaks after the first held key.
MutIntegrateFirstOnly(pos, held, ms) ==
    IF \E i \in 1..Len(KeyOrder) : Held(held, KeyOrder[i])
    THEN LET i == CHOOSE j \in 1..Len(KeyOrder) :
                      /\ Held(held, KeyOrder[j])
                      /\ \A m \in 1..(j - 1) : ~Held(held, KeyOrder[m])
         IN  Step(pos, KeyOrder[i], ms)
    ELSE pos

\* Lines 64-67: the loop over DIRECT_DICT.
Integrate(pos, held, ms) == IntegrateFrom(1, pos, held, ms)

\* Mutant of PlayerClamp: the rect is clamped, true_pos is not reset.
MutPlayerClampNoResync(p, screen_rect) ==
    IF ~Contains(screen_rect, p.rect)
    THEN [p EXCEPT !.rect = ClampIp(p.rect, screen_rect)]
    ELSE p

\* Player.clamp: p is [rect, true_pos].
PlayerClamp(p, screen_rect) ==
    IF ~Contains(screen_rect, p.rect)
    THEN LET r == ClampIp(p.rect, screen_rect)
         IN  [rect |-> r,
              true_pos |-> <<FromInt(Center(r)[1]), FromInt(Center(r)[2])>>]
    ELSE p

\* Mutant of PlayerUpdate: line 68 assigns rect.topleft instead of rect.center.
MutPlayerUpdateTopleft(p, held, screen_rect, ms) ==
    LET tp == Integrate(p.true_pos, held, ms)
    IN  PlayerClamp([rect |-> [p.rect EXCEPT !.x = ToInt(tp[1]), !.y = ToInt(tp[2])],
                     true_pos |-> tp], screen_rect)

\* Player.update
PlayerUpdate(p, held, screen_rect, ms) ==
    LET tp == Integrate(p.true_pos, held, ms)
    IN  PlayerClamp([rect |-> SetCenter(p.rect, tp), true_pos |-> tp], screen_rect)

\* --------------------------------------------------------------------- App

VARIABLES
    pc,          \* position in App.main_loop
    done,        \* self.done
    keys,        \* self.keys: the direction keys seen as held
    pressed,     \* the keyboard state pg.key.get_pressed() reports
    dt,          \* main_loop's local dt, in ms
    true_pos,    \* player.true_pos, in 1/1000 pixel
    rect,        \* player.rect
    integrated,  \* player.true_pos as line 68 read it in the last update
    frames,      \* iterations of the while loop begun
    quit_seen    \* a QUIT event has been delivered to event_loop

vars == <<pc, done, keys, pressed, dt, true_pos, rect, integrated, frames,
          quit_seen>>

Events ==
    {[type |-> "QUIT", key |-> "none"], [type |-> "MOUSEMOTION", key |-> "none"]}
    \cup {[type |-> t, key |-> k] : t \in {"KEYDOWN", "KEYUP"}, k \in Keys}

Batches == UNION {[1..n -> Events] : n \in 0..MaxEvents}

\* The keyboard state once pg.event.get() has pumped the whole batch.
RECURSIVE Pump(_, _, _)
Pump(i, batch, down) ==
    IF i > Len(batch) THEN down
    ELSE Pump(i + 1, batch,
              IF batch[i].type = "KEYDOWN" THEN down \cup {batch[i].key}
              ELSE IF batch[i].type = "KEYUP" THEN down \ {batch[i].key}
              ELSE down)

\* The body of event_loop's for loop, over the batch: st is [done, keys].
RECURSIVE HandleEvents(_, _, _, _)
HandleEvents(i, batch, st, down) ==
    IF i > Len(batch) THEN st
    ELSE HandleEvents(i + 1, batch,
                      IF batch[i].type = "QUIT" THEN [st EXCEPT !.done = TRUE]
                      ELSE IF batch[i].type \in {"KEYDOWN", "KEYUP"}
                           THEN [st EXCEPT !.keys = down]
                      ELSE st,
                      down)

\* Mutant of InitialDt: dt starts as the first tick's value.
MutInitialDtTick(t) == t

\* dt = 0 of line 129; t is what the tick of line 130 returned.
InitialDt(t) == 0

\* Mutant of LoopTest: while True.
MutLoopTestAlways(d) == TRUE

\* while not self.done
LoopTest(d) == ~d

\* App.__init__
Init ==
    /\ pc = "main_loop"
    /\ done = FALSE
    /\ keys = {}
    /\ pressed = {}
    /\ dt = 0
    /\ LET p == PlayerInit(Center(ScreenRect))
       IN  /\ true_pos = p.true_pos
           /\ rect = p.rect
           /\ integrated = p.true_pos
    /\ frames = 0
    /\ quit_seen = FALSE

\* Lines 129-130.
MainLoopEnter ==
    /\ pc = "main_loop"
    /\ \E t \in TickValues : dt' = InitialDt(t)
    /\ pc' = "while"
    /\ UNCHANGED <<done, keys, pressed, true_pos, rect, integrated, frames, quit_seen>>

\* Line 131, loop taken.
WhileEnter ==
    /\ pc = "while"
    /\ LoopTest(done)
    /\ frames < MaxFrames
    /\ frames' = frames + 1
    /\ pc' = "event_loop"
    /\ UNCHANGED <<done, keys, pressed, dt, true_pos, rect, integrated, quit_seen>>

\* Line 131, loop left.
WhileExit ==
    /\ pc = "while"
    /\ ~LoopTest(done)
    /\ pc' = "exit"
    /\ UNCHANGED <<done, keys, pressed, dt, true_pos, rect, integrated, frames, quit_seen>>

\* App.event_loop
EventLoop ==
    /\ pc = "event_loop"
    /\ \E batch \in Batches :
          LET down == Pump(1, batch, pressed)
              st == HandleEvents(1, batch, [done |-> done, keys |-> keys], down)
          IN  /\ pressed' = down
              /\ done' = st.done
              /\ keys' = st.keys
              /\ quit_seen' = (quit_seen \/ \E i \in 1..Len(batch) : batch[i].type = "QUIT")
    /\ pc' = "update"
    /\ UNCHANGED <<dt, true_pos, rect, integrated, frames>>

\* App.update
Update ==
    /\ pc = "update"
    /\ LET p == PlayerUpdate([rect |-> rect, true_pos |-> true_pos],
                             keys, ScreenRect, dt)
       IN  /\ true_pos' = p.true_pos
           /\ rect' = p.rect
    /\ integrated' = Integrate(true_pos, keys, dt)
    /\ pc' = "render"
    /\ UNCHANGED <<done, keys, pressed, dt, frames, quit_seen>>

\* App.render: draws, changes nothing of the player.
Render ==
    /\ pc = "render"
    /\ pc' = "tick"
    /\ UNCHANGED <<done, keys, pressed, dt, true_pos, rect, integrated, frames, quit_seen>>

\* Line 135.
Tick ==
    /\ pc = "tick"
    /\ \E t \in TickValues : dt' = t
    /\ pc' = "while"
    /\ UNCHANGED <<done, keys, pressed, true_pos, rect, integrated, frames, quit_seen>>

Next ==
    \/ MainLoopEnter
    \/ WhileEnter
    \/ WhileExit
    \/ EventLoop
    \/ Update
    \/ Render
    \/ Tick

Spec == Init /\ [][Next]_vars

TypeOK ==
    /\ pc \in {"main_loop", "while", "event_loop", "update", "render", "tick", "exit"}
    /\ done \in BOOLEAN
    /\ keys \subseteq Keys
    /\ pressed \subseteq Keys
    /\ dt \in TickValues
    /\ frames \in 0..MaxFrames
    /\ quit_seen \in BOOLEAN

\* ------------------------------------------------------------------ claims

\* The rect line 68 derives from the exact position the last update integrated.
DerivedRect == SetCenter(rect, integrated)

\* The last update's call of Player.clamp took its branch.
Clamped == ~Contains(ScreenRect, DerivedRect)

Frac(v) == v % MsPerSec

Abs(n) == IF n < 0 THEN -n ELSE n

\* Squared magnitude of a displacement, taken in 1/10 pixel (the displacements
\* compared are whole in that unit, which Whole10 states).
SqMag(d) == (d[1] \div 100) * (d[1] \div 100) + (d[2] \div 100) * (d[2] \div 100)

Whole10(d) == d[1] % 100 = 0 /\ d[2] % 100 = 0

\* The sum of the unit vectors of the held keys, on one axis.
DirSum(held, neg, pos) ==
    (IF pos \in held THEN 1 ELSE 0) - (IF neg \in held THEN 1 ELSE 0)

\* C1: in the initial state and after every update the player's 100x100 rect
\* lies inside the 500x500 screen rect: its centre is in [50, 450] on both axes.
C1_RectInsideScreen ==
    /\ rect.w = 100 /\ rect.h = 100
    /\ rect.x >= 0 /\ rect.x + rect.w <= 500
    /\ rect.y >= 0 /\ rect.y + rect.h <= 500
    /\ Center(rect)[1] \in 50..450
    /\ Center(rect)[2] \in 50..450

\* C1 witness: an update whose integrated position left the screen on the
\* right or bottom edge has been clamped.
C1_Witness ==
    /\ pc = "render"
    /\ DerivedRect.x + DerivedRect.w > 500
    /\ dt > 0

\* C2: when clamp clamps, true_pos afterwards is the centre of the clamped
\* rect on both axes with no fractional part; when it does not, true_pos is
\* the integrated position.
C2_ClampResyncs ==
    IF Clamped
    THEN /\ rect = ClampIp(DerivedRect, ScreenRect)
         /\ true_pos[1] = Center(rect)[1] * MsPerSec
         /\ true_pos[2] = Center(rect)[2] * MsPerSec
         /\ Frac(true_pos[1]) = 0 /\ Frac(true_pos[2]) = 0
    ELSE true_pos = integrated

\* C2 witness: a clamping update whose integrated position had a fraction.
C2_Witness ==
    /\ pc = "render"
    /\ Clamped
    /\ Frac(integrated[1]) # 0
    /\ Frac(integrated[2]) # 0

\* C3: the position after the integration step is the prior position plus
\* (sum of the held keys' unit vectors) * speed * dt on each axis.
C3_IntegrationIsVectorSum ==
    [][pc = "update" =>
         /\ integrated'[1] =
                true_pos[1] + DirSum(keys, "K_LEFT", "K_RIGHT") * 300 * dt
         /\ integrated'[2] =
                true_pos[2] + DirSum(keys, "K_UP", "K_DOWN") * 300 * dt]_vars

\* C3 witness: an update with opposite keys and a third key held, dt > 0.
C3_Witness ==
    /\ pc = "render"
    /\ keys = {"K_LEFT", "K_RIGHT", "K_DOWN"}
    /\ dt > 0
    /\ integrated[1] = true_pos[1]
    /\ integrated[2] = true_pos[2]
    /\ true_pos[2] > 250 * MsPerSec

\* C4: no update discards the fractional displacement accumulated along an
\* axis on which the player is not at the screen bound.
C4_FractionKeptOffBound ==
    [][pc = "update" =>
         /\ (DerivedRect'.x > 0 /\ DerivedRect'.x + DerivedRect'.w < SCREEN_W
               => true_pos'[1] = integrated'[1])
         /\ (DerivedRect'.y > 0 /\ DerivedRect'.y + DerivedRect'.h < SCREEN_H
               => true_pos'[2] = integrated'[2])]_vars

\* C5: an update with dt = 0 changes neither the exact nor the display position.
C5_ZeroDtNoMove ==
    [][pc = "update" /\ dt = 0 => true_pos' = true_pos /\ rect' = rect]_vars

\* C5 witness: a dt = 0 update done with keys held, after the player has moved
\* to a fractional position.
C5_Witness ==
    /\ pc = "render"
    /\ dt = 0
    /\ keys # {}
    /\ frames >= 2
    /\ Frac(true_pos[1]) # 0

\* C6: an update with no direction key held changes neither the exact nor the
\* display position, whatever dt is.
C6_NoKeysNoMove ==
    [][pc = "update" /\ keys = {} => true_pos' = true_pos /\ rect' = rect]_vars

\* C6 witness: an update with dt > 0 after all keys were released, the player
\* resting at a fractional position.
C6_Witness ==
    /\ pc = "render"
    /\ keys = {}
    /\ dt > 0
    /\ Frac(true_pos[2]) # 0

\* C7: with two perpendicular keys held the displacement has, on each axis, the
\* magnitude of the single-key displacement for the same dt, and twice its
\* squared magnitude.
C7_DiagonalUnnormalized ==
    [][pc = "update" =>
         \A h \in {"K_LEFT", "K_RIGHT"}, v \in {"K_UP", "K_DOWN"} :
            keys = {h, v} =>
               LET d  == <<integrated'[1] - true_pos[1], integrated'[2] - true_pos[2]>>
                   ph == Integrate(true_pos, {h}, dt)
                   pv == Integrate(true_pos, {v}, dt)
                   ah == <<ph[1] - true_pos[1], ph[2] - true_pos[2]>>
                   av == <<pv[1] - true_pos[1], pv[2] - true_pos[2]>>
               IN  /\ d[1] = ah[1] /\ ah[2] = 0
                   /\ d[2] = av[2] /\ av[1] = 0
                   /\ Abs(d[1]) = Abs(d[2])
                   /\ Abs(d[1]) = 300 * dt
                   /\ Whole10(d) /\ Whole10(ah) /\ Whole10(av)
                   /\ SqMag(d) = 2 * SqMag(ah)
                   /\ SqMag(d) = 2 * SqMag(av)]_vars

\* C7 witness: an update with up and left held and dt > 0.
C7_Witness ==
    /\ pc = "render"
    /\ keys = {"K_UP", "K_LEFT"}
    /\ dt > 0
    /\ integrated[1] < 250 * MsPerSec
    /\ integrated[2] < 250 * MsPerSec

\* C8: the first update gets dt = 0 and leaves the player at (250, 250)
\* whatever keys are held; dt is never negative and changes only at the tick
\* that ends an iteration.
C8_FirstFrameZeroDt ==
    /\ [](frames = 1 /\ pc \in {"event_loop", "update", "render", "tick"} => dt = 0)
    /\ [](frames = 1 /\ pc \in {"render", "tick"} =>
             /\ true_pos = <<250 * MsPerSec, 250 * MsPerSec>>
             /\ Center(rect) = <<250, 250>>)
    /\ [](dt >= 0)
    /\ [][dt' # dt => pc = "tick"]_vars

\* C8 witness: the first update has run with keys held.
C8_Witness ==
    /\ frames = 1
    /\ pc = "render"
    /\ Cardinality(keys) = 2

\* C9: while no QUIT has been delivered the loop starts another iteration, in
\* the order event_loop, update, render, tick; done is set exactly when
\* event_loop has been given a QUIT, is never cleared, and the loop then ends
\* at its next test.
C9_RunsUntilQuit ==
    /\ [](done <=> quit_seen)
    /\ [][/\ (pc = "while" /\ ~quit_seen => pc' = "event_loop")
          /\ (pc = "while" /\ quit_seen => pc' = "exit")
          /\ (pc = "event_loop" => pc' = "update")
          /\ (pc = "update" => pc' = "render")
          /\ (pc = "render" => pc' = "tick")
          /\ (pc = "tick" => pc' = "while")
          /\ (pc' = "event_loop" => pc = "while" /\ frames' = frames + 1)
          /\ (done => done')
          /\ (done => frames' = frames)]_vars

\* C9 witness: the loop has ended after a QUIT delivered in its second iteration.
C9_Witness ==
    /\ pc = "exit"
    /\ frames = 2
    /\ done

\* C10: the display centre is the integer conversion of true_pos on each axis:
\* it is at most true_pos and less than one pixel below it.
C10_DisplayIsIntOfExact ==
    \A i \in 1..2 :
        /\ Center(rect)[i] * MsPerSec <= true_pos[i]
        /\ true_pos[i] < (Center(rect)[i] + 1) * MsPerSec

\* C10 witness: an update that did not clamp left a fractional exact position.
C10_Witness ==
    /\ pc = "render"
    /\ ~Clamped
    /\ Frac(true_pos[1]) > MsPerSec \div 2

====
